---- MODULE Spec2Model ----
(***************************************************************************)
(* Model of the Hunter ceiling fan remote decoder, src/devices/hunter.c.   *)
(* hunter_decode inverts the bit buffer, then for each row searches the    *)
(* 12 bit preamble, checks the length, extracts command and inverse        *)
(* command, checks that they are complements, maps the command to a        *)
(* target and an action and emits one record.                              *)
(***************************************************************************)
EXTENDS Integers, Sequences, FiniteSets, TLC

VARIABLES bitbuffer, input, pc, row, start_pos, command, icommand, result,
          output, log, reads

vars == <<bitbuffer, input, pc, row, start_pos, command, icommand, result,
          output, log, reads>>

(***************************************************************************)
(* Bounds of the input domain.                                             *)
(***************************************************************************)
MaxRows == 3
MaxLead == 2

(***************************************************************************)
(* Program constants.                                                      *)
(***************************************************************************)
HUNTER_BITLEN == 78
HUNTER_PREAMBLE_BITLEN == 12

\* uint8_t const preamble_pattern[] = {0x00, 0x0f}
preamble_bytes_ones == <<255, 240>>
preamble_bytes == <<0, 15>>

(***************************************************************************)
(* Bit helpers.                                                            *)
(***************************************************************************)
Pow2(n) == 2 ^ n

\* the 8 bits of a byte, most significant first
ByteBits(b) == [i \in 1..8 |-> (b \div Pow2(8 - i)) % 2]

\* bit i (0-based, most significant first) of a byte array
PatternBit(bytes, i) == ByteBits(bytes[(i \div 8) + 1])[(i % 8) + 1]

\* the first HUNTER_PREAMBLE_BITLEN bits of preamble_pattern
preamble_pattern == [i \in 1..HUNTER_PREAMBLE_BITLEN |-> PatternBit(preamble_bytes, i - 1)]

RECURSIVE BitAnd(_, _)
BitAnd(a, b) ==
    IF a = 0 \/ b = 0 THEN 0
    ELSE (a % 2) * (b % 2) + 2 * BitAnd(a \div 2, b \div 2)

RECURSIVE BitOr(_, _)
BitOr(a, b) ==
    IF a = 0 THEN b
    ELSE IF b = 0 THEN a
    ELSE (IF a % 2 = 1 \/ b % 2 = 1 THEN 1 ELSE 0) + 2 * BitOr(a \div 2, b \div 2)

(***************************************************************************)
(* The bit buffer primitives of the decoder library (bitbuffer.c), which   *)
(* hunter_decode calls.                                                    *)
(***************************************************************************)
\* bit i (0-based) of a row; storage past the row's length is zero
RowBit(bits, i) == IF i < Len(bits) THEN bits[i + 1] ELSE 0

\* flips every bit of every row, the bit lengths stay
bitbuffer_invert(bb) ==
    [bb EXCEPT !.bb = [r \in 1..bb.num_rows |->
                          [i \in 1..Len(bb.bb[r]) |-> 1 - bb.bb[r][i]]]]

PatternAt(bits, k, pattern) ==
    \A j \in 1..Len(pattern) : RowBit(bits, k + j - 1) = pattern[j]

RECURSIVE SearchFrom(_, _, _, _)
SearchFrom(bits, len, k, pattern) ==
    IF k + Len(pattern) > len THEN len
    ELSE IF PatternAt(bits, k, pattern) THEN k
    ELSE SearchFrom(bits, len, k + 1, pattern)

\* index of the first occurrence of the pattern at or after start, or the
\* row's bit length when there is none
bitbuffer_search(bb, r, start, pattern) ==
    SearchFrom(bb.bb[r + 1], bb.bits_per_row[r + 1], start, pattern)

\* one output byte: the 8 bits from position p, bits at or past lim are 0
ExtractByte(bits, p, lim) ==
    LET b(i) == IF p + i < lim THEN RowBit(bits, p + i) ELSE 0
    IN  128 * b(0) + 64 * b(1) + 32 * b(2) + 16 * b(3)
        + 8 * b(4) + 4 * b(5) + 2 * b(6) + b(7)

\* len bits from position pos, packed most significant bit first into
\* (len + 7) / 8 bytes, the unused low bits of the last byte are zero
bitbuffer_extract_bytes(bb, r, pos, len) ==
    [j \in 1..((len + 7) \div 8) |->
        ExtractByte(bb.bb[r + 1], pos + 8 * (j - 1), pos + len)]

\* the bit positions of row r that an extraction of len bits at pos reads
ExtractReads(r, pos, len) == {<<r, i>> : i \in pos..(pos + len - 1)}

(***************************************************************************)
(* The conditions and computations of hunter_decode.                       *)
(***************************************************************************)
\* int result = 0
ResultInitOne == Pow2(0)
ResultInit == 0

\* result = 1 on a good message
ResultOnGoodCount(res) == res + 1
ResultOnGood(res) == 1

\* start_pos > bitbuffer->bits_per_row[row]
NoPreambleCondNever(bits_in_row, sp) == FALSE
NoPreambleCond(bits_in_row, sp) == sp > bits_in_row

\* (bits_per_row[row] - start_pos) < (HUNTER_BITLEN - HUNTER_PREAMBLE_BITLEN)
\* is an unsigned comparison: when start_pos exceeds the row length the
\* difference wraps to at least 2^32 - 65547, which is not below 66.
ShortMessageCondOffByOne(bits_in_row, sp) ==
    IF sp <= bits_in_row
    THEN (bits_in_row - sp) <= (HUNTER_BITLEN - HUNTER_PREAMBLE_BITLEN)
    ELSE FALSE
ShortMessageCond(bits_in_row, sp) ==
    IF sp <= bits_in_row
    THEN (bits_in_row - sp) < (HUNTER_BITLEN - HUNTER_PREAMBLE_BITLEN)
    ELSE FALSE

\* c[0] << 8 | c[1], then >> 6
TenBits(c) == BitOr(c[1] * 256, c[2]) \div 64

\* (command & icommand) != 0 || (command | icommand) != 1023
BadMessageCondWeak(cmd, icmd) == BitAnd(cmd, icmd) # 0
BadMessageCond(cmd, icmd) ==
    BitAnd(cmd, icmd) # 0 \/ BitOr(cmd, icmd) # 1023

HexChars == <<"0", "1", "2", "3", "4", "5", "6", "7",
              "8", "9", "A", "B", "C", "D", "E", "F">>

\* sprintf(remote_id, "%02X%02X%02X%02X%02X", id[0], ..., id[4])
RemoteId(id) ==
    LET h(b) == <<HexChars[(b \div 16) + 1], HexChars[(b % 16) + 1]>>
    IN  h(id[1]) \o h(id[2]) \o h(id[3]) \o h(id[4]) \o h(id[5])

FanCommands == {4, 32, 35, 64, 98}
LightCommands == {10, 11, 12, 13, 14, 15, 72, 73, 138, 266, 768}

TargetStringFanFirst(cmd) ==
    IF cmd \in FanCommands \cup {10} THEN "Fan"
    ELSE IF cmd \in LightCommands THEN "Light"
    ELSE "Unknown"
TargetString(cmd) ==
    IF cmd \in FanCommands THEN "Fan"
    ELSE IF cmd \in LightCommands THEN "Light"
    ELSE "Unknown"

FanAction(cmd) ==
    CASE cmd = 4 -> "Speed 33%"
      [] cmd = 32 -> "Speed 66%"
      [] cmd = 64 -> "Speed 100%"
      [] cmd = 35 -> "Toggle"
      [] cmd = 98 -> "Off"
      [] OTHER -> "Unknown"

LightAction(cmd) ==
    CASE cmd = 10 -> "Brightness 12.5%"
      [] cmd = 11 -> "Brightness 25%"
      [] cmd = 12 -> "Brightness 37.5%"
      [] cmd = 13 -> "Brightness 50%"
      [] cmd = 14 -> "Brightness 62.5%"
      [] cmd = 15 -> "Brightness 75%"
      [] cmd = 72 -> "Brightness 87.5%"
      [] cmd = 73 -> "Brightness 100%"
      [] cmd = 138 -> "On"
      [] cmd = 266 -> "Off"
      [] cmd = 768 -> "Toggle"
      [] OTHER -> "Unknown"

ActionStringSwapped(cmd) ==
    IF cmd \in FanCommands THEN FanAction(IF cmd = 4 THEN 32 ELSE cmd)
    ELSE IF cmd \in LightCommands THEN LightAction(IF cmd = 138 THEN 266 ELSE cmd)
    ELSE "Unknown"
ActionString(cmd) ==
    IF cmd \in FanCommands THEN FanAction(cmd)
    ELSE IF cmd \in LightCommands THEN LightAction(cmd)
    ELSE "Unknown"

\* data_make("model", "Hunter", "id", remote_id, "command", command,
\*           "target", target_string, "action", action_string)
data_make(id, cmd) ==
    [model |-> "Hunter", id |-> RemoteId(id), command |-> cmd,
     target |-> TargetString(cmd), action |-> ActionString(cmd)]

\* decoder_log(decoder, 1, __func__, msg)
decoder_log(msg) == [level |-> 1, msg |-> msg]

\* `continue` of the for loop: ++row, then the loop test
ContinueAbort == "done"
Continue == "loop"

(***************************************************************************)
(* The input domain: rows as the demodulator hands them to the decoder.    *)
(* The data layout comment gives the frame after the inversion:            *)
(*   PPPPPPPP PPPP1III ... IIIII00C CCCCCCCC C11KKKKK KKKKK0               *)
(***************************************************************************)
Ones(n) == [i \in 1..n |-> 1]
Zeros(n) == [i \in 1..n |-> 0]
Flip(s) == [i \in 1..Len(s) |-> 1 - s[i]]
Bits10(n) == [i \in 1..10 |-> (n \div Pow2(10 - i)) % 2]
Take(s, n) == SubSeq(s, 1, IF n < 0 THEN 0 ELSE IF n > Len(s) THEN Len(s) ELSE n)

IdBytes == <<1, 2, 3, 4, 5>>
IdBits == ByteBits(IdBytes[1]) \o ByteBits(IdBytes[2]) \o ByteBits(IdBytes[3])
          \o ByteBits(IdBytes[4]) \o ByteBits(IdBytes[5])

\* the 66 payload bits: guard, id, two pad bits, command, two guard bits,
\* inverse command, trailing bit
Payload(g, pad, cmd, mid, icmd, t) ==
    <<g>> \o IdBits \o pad \o Bits10(cmd) \o mid \o Bits10(icmd) \o t

\* a row on the wire: leading bits, twelve 1 bits, the payload complemented
\* (hunter_decode inverts the buffer and reads the fields from the result)
Wire(lead, cmd, icmd) ==
    lead \o Ones(12) \o Flip(Payload(1, <<0, 0>>, cmd, <<1, 1>>, icmd, <<0>>))

RECURSIVE BitSeqs(_)
BitSeqs(n) ==
    IF n = 0 THEN {<<>>}
    ELSE BitSeqs(n - 1) \cup {Append(s, b) : s \in {x \in BitSeqs(n - 1) : Len(x) = n - 1}, b \in {0, 1}}

Leads == BitSeqs(MaxLead)

\* (command, inverse command) pairs: complements, disjoint but not
\* complements, overlapping
CmdPairs == {<<4, 1019>>, <<138, 885>>, <<5, 2>>, <<5, 1019>>, <<0, 0>>, <<1023, 1023>>}

Drops == {0, 1, 2, 40, 66, 70}
Tails == {<<>>, <<1>>}

CutRows ==
    {Take(Wire(lead, p[1], p[2]) \o tl, Len(lead) + HUNTER_BITLEN + Len(tl) - d) :
        lead \in Leads, p \in CmdPairs, tl \in Tails, d \in Drops}

AllCmdRows == {Wire(<<>>, c, 1023 - c) : c \in 0..1023}

\* a row with eleven 1 bits only, and rows without any preamble
BrokenRows ==
    {Ones(11) \o <<0>> \o Flip(Payload(1, <<0, 0>>, 4, <<1, 1>>, 1019, <<0>>)),
     Zeros(80), <<0, 1, 0, 1, 1>>, <<>>}

\* the row of the first end-to-end scenario with its bits as listed: the
\* preamble 111111111111, then guard bit, id, command 4, guard bits, inverse
ScenarioListed78 ==
    {Ones(12) \o Payload(g, pad, 4, mid, 1019, t) :
        g \in {0, 1}, pad \in {<<0, 0>>, <<1, 1>>},
        mid \in {<<0, 0>>, <<1, 1>>}, t \in {<<0>>, <<1>>}}
ScenarioListed75 ==
    {Ones(12) \o Payload(g, <<>>, 4, mid, 1019, <<>>) :
        g \in {0, 1}, mid \in {<<0, 0>>, <<1, 1>>}}
\* the same frame as it arrives on the wire: the 66 bits after the preamble
\* complemented
ScenarioWire ==
    {Ones(12) \o Flip(Payload(g, pad, 4, mid, 1019, t)) :
        g \in {0, 1}, pad \in {<<0, 0>>, <<1, 1>>},
        mid \in {<<0, 0>>, <<1, 1>>}, t \in {<<0>>, <<1>>}}

SingleRows ==
    CutRows \cup AllCmdRows \cup BrokenRows
    \cup ScenarioListed78 \cup ScenarioListed75 \cup ScenarioWire

\* rows of multi row buffers
RowNoPreamble == <<0, 1, 0, 1, 1>>
RowLight138 == Wire(<<>>, 138, 885)
RowFan4 == Wire(<<0>>, 4, 1019)
RowShort65 == Take(RowLight138, HUNTER_BITLEN - 1)
RowBad == Wire(<<>>, 5, 2)
MultiRows == {RowNoPreamble, RowLight138, RowFan4, RowShort65, RowBad}

RECURSIVE RowSeqs(_)
RowSeqs(n) ==
    IF n = 0 THEN {<<>>}
    ELSE RowSeqs(n - 1) \cup {Append(s, r) : s \in {x \in RowSeqs(n - 1) : Len(x) = n - 1}, r \in MultiRows}

Matrices == RowSeqs(MaxRows) \cup {<<r>> : r \in SingleRows}

MkBitbuffer(m) ==
    [num_rows |-> Len(m),
     bits_per_row |-> [r \in 1..Len(m) |-> Len(m[r])],
     bb |-> m]

(***************************************************************************)
(* The state machine.                                                      *)
(***************************************************************************)
Init ==
    /\ \E m \in Matrices : bitbuffer = MkBitbuffer(m) /\ input = MkBitbuffer(m)
    /\ pc = "start"
    /\ row = 0
    /\ start_pos = 0
    /\ command = 0
    /\ icommand = 0
    /\ result = 0
    /\ output = <<>>
    /\ log = <<>>
    /\ reads = {}

\* int result = 0; bitbuffer_invert(bitbuffer); row = 0
BeginNoInvert ==
    /\ pc = "start"
    /\ bitbuffer' = bitbuffer
    /\ result' = ResultInit
    /\ row' = 0
    /\ pc' = "loop"
    /\ UNCHANGED <<input, start_pos, command, icommand, output, log, reads>>
Begin ==
    /\ pc = "start"
    /\ bitbuffer' = bitbuffer_invert(bitbuffer)
    /\ result' = ResultInit
    /\ row' = 0
    /\ pc' = "loop"
    /\ UNCHANGED <<input, start_pos, command, icommand, output, log, reads>>

\* row < num_rows: start_pos = bitbuffer_search(...); start_pos += 12
Search ==
    /\ pc = "loop"
    /\ row < bitbuffer.num_rows
    /\ start_pos' = bitbuffer_search(bitbuffer, row, 0, preamble_pattern) + 12
    /\ pc' = "chk_pre"
    /\ UNCHANGED <<bitbuffer, input, row, command, icommand, result, output, log, reads>>

NoPreamble ==
    /\ pc = "chk_pre"
    /\ NoPreambleCond(bitbuffer.bits_per_row[row + 1], start_pos)
    /\ log' = Append(log, decoder_log("no preamble"))
    /\ row' = row + 1
    /\ pc' = Continue
    /\ UNCHANGED <<bitbuffer, input, start_pos, command, icommand, result, output, reads>>

PreambleFound ==
    /\ pc = "chk_pre"
    /\ ~NoPreambleCond(bitbuffer.bits_per_row[row + 1], start_pos)
    /\ pc' = "chk_len"
    /\ UNCHANGED <<bitbuffer, input, row, start_pos, command, icommand, result, output, log, reads>>

ShortMessage ==
    /\ pc = "chk_len"
    /\ ShortMessageCond(bitbuffer.bits_per_row[row + 1], start_pos)
    /\ log' = Append(log, decoder_log("short message"))
    /\ row' = row + 1
    /\ pc' = Continue
    /\ UNCHANGED <<bitbuffer, input, start_pos, command, icommand, result, output, reads>>

\* extraction of command and inverse command
Extract ==
    /\ pc = "chk_len"
    /\ ~ShortMessageCond(bitbuffer.bits_per_row[row + 1], start_pos)
    /\ command' = TenBits(bitbuffer_extract_bytes(bitbuffer, row, start_pos + 43, 10))
    /\ icommand' = TenBits(bitbuffer_extract_bytes(bitbuffer, row, start_pos + 43 + 10 + 2, 10))
    /\ reads' = reads \cup ExtractReads(row, start_pos + 43, 10)
                      \cup ExtractReads(row, start_pos + 43 + 10 + 2, 10)
    /\ pc' = "validate"
    /\ UNCHANGED <<bitbuffer, input, row, start_pos, result, output, log>>

BadMessage ==
    /\ pc = "validate"
    /\ BadMessageCond(command, icommand)
    /\ log' = Append(log, decoder_log("bad message"))
    /\ row' = row + 1
    /\ pc' = Continue
    /\ UNCHANGED <<bitbuffer, input, start_pos, command, icommand, result, output, reads>>

\* result = 1; id extraction; mapping; decoder_output_data; end of loop body
Emit ==
    /\ pc = "validate"
    /\ ~BadMessageCond(command, icommand)
    /\ result' = ResultOnGood(result)
    /\ reads' = reads \cup ExtractReads(row, start_pos + 1, 40)
    /\ output' = Append(output,
                    data_make(bitbuffer_extract_bytes(bitbuffer, row, start_pos + 1, 40), command))
    /\ row' = row + 1
    /\ pc' = "loop"
    /\ UNCHANGED <<bitbuffer, input, start_pos, command, icommand, log>>

\* the loop test fails: return result
Return ==
    /\ pc = "loop"
    /\ ~(row < bitbuffer.num_rows)
    /\ pc' = "done"
    /\ UNCHANGED <<bitbuffer, input, row, start_pos, command, icommand, result, output, log, reads>>

Next ==
    \/ Begin
    \/ Search
    \/ NoPreamble
    \/ PreambleFound
    \/ ShortMessage
    \/ Extract
    \/ BadMessage
    \/ Emit
    \/ Return

Spec == Init /\ [][Next]_vars

\* the decoder runs to completion once called
FairSpec == Spec /\ WF_vars(Next)

(***************************************************************************)
(* Reference reading of a row as handed to the decoder, used to state the  *)
(* properties: the preamble is twelve 1 bits, the fields are the           *)
(* complemented bits at the offsets of the data layout.                    *)
(***************************************************************************)
OnesAt(s, k) == k + 12 <= Len(s) /\ \A j \in 1..12 : s[k + j] = 1
HasPreamble(s) == \E k \in 0..Len(s) : OnesAt(s, k)
FirstPreamble(s) ==
    CHOOSE k \in 0..Len(s) : OnesAt(s, k) /\ \A m \in 0..(k - 1) : ~OnesAt(s, m)
FrameStart(s) == FirstPreamble(s) + 12

RECURSIVE WireField(_, _, _)
\* value of the n complemented bits of s that follow 0-based position p
WireField(s, p, n) ==
    IF n = 0 THEN 0 ELSE 2 * WireField(s, p, n - 1) + (1 - s[p + n])

RefCommand(s) == WireField(s, FrameStart(s) + 43, 10)
RefInverse(s) == WireField(s, FrameStart(s) + 55, 10)

Outcome(s) ==
    IF ~HasPreamble(s) THEN "no preamble"
    ELSE IF Len(s) - FrameStart(s) < 66 THEN "short message"
    ELSE IF RefCommand(s) + RefInverse(s) # 1023 THEN "bad message"
    ELSE "decoded"

RECURSIVE ExpectedCommands(_, _)
\* the commands of the rows among the first n that decode, in row order
ExpectedCommands(rows, n) ==
    IF n = 0 THEN <<>>
    ELSE IF Outcome(rows[n]) = "decoded"
         THEN Append(ExpectedCommands(rows, n - 1), RefCommand(rows[n]))
         ELSE ExpectedCommands(rows, n - 1)

RECURSIVE ExpectedLog(_, _)
\* the diagnostics of the rows among the first n that fail, in row order
ExpectedLog(rows, n) ==
    IF n = 0 THEN <<>>
    ELSE IF Outcome(rows[n]) # "decoded"
         THEN Append(ExpectedLog(rows, n - 1), [level |-> 1, msg |-> Outcome(rows[n])])
         ELSE ExpectedLog(rows, n - 1)

OutputCommands == [i \in 1..Len(output) |-> output[i].command]

\* the mapping of section 4.4 with the labels of the code
MappingTable(c) ==
    CASE c = 4 -> <<"Fan", "Speed 33%">>
      [] c = 32 -> <<"Fan", "Speed 66%">>
      [] c = 35 -> <<"Fan", "Toggle">>
      [] c = 64 -> <<"Fan", "Speed 100%">>
      [] c = 98 -> <<"Fan", "Off">>
      [] c = 10 -> <<"Light", "Brightness 12.5%">>
      [] c = 11 -> <<"Light", "Brightness 25%">>
      [] c = 12 -> <<"Light", "Brightness 37.5%">>
      [] c = 13 -> <<"Light", "Brightness 50%">>
      [] c = 14 -> <<"Light", "Brightness 62.5%">>
      [] c = 15 -> <<"Light", "Brightness 75%">>
      [] c = 72 -> <<"Light", "Brightness 87.5%">>
      [] c = 73 -> <<"Light", "Brightness 100%">>
      [] c = 138 -> <<"Light", "On">>
      [] c = 266 -> <<"Light", "Off">>
      [] c = 768 -> <<"Light", "Toggle">>
      [] OTHER -> <<"Unknown", "Unknown">>

\* the same mapping with the Light labels exactly as the list gives them
ListedTable(c) ==
    CASE c = 11 -> <<"Light", "25%">>
      [] c = 12 -> <<"Light", "37.5%">>
      [] c = 13 -> <<"Light", "50%">>
      [] c = 14 -> <<"Light", "62.5%">>
      [] c = 15 -> <<"Light", "75%">>
      [] c = 72 -> <<"Light", "87.5%">>
      [] c = 73 -> <<"Light", "100%">>
      [] OTHER -> MappingTable(c)

(***************************************************************************)
(* C1: a row that passed the preamble and length checks yields a record    *)
(* if and only if command & inverse = 0 and command | inverse = 1023; the  *)
(* two values are the fields extracted from the row, an emitted record     *)
(* carries that command and its inverse was the exact 10 bit complement.   *)
(***************************************************************************)
C1_EmitIffComplement ==
    [][pc = "validate" =>
        /\ command = RefCommand(input.bb[row + 1])
        /\ icommand = RefInverse(input.bb[row + 1])
        /\ (Len(output') = Len(output) + 1)
             <=> (BitAnd(command, icommand) = 0 /\ BitOr(command, icommand) = 1023)
        /\ (Len(output') = Len(output) + 1)
             => /\ output'[Len(output')].command = command
                /\ icommand = 1023 - command
        /\ (Len(output') # Len(output) + 1) => output' = output]_vars

\* the pair command 5, inverse 2 was rejected
C1_Witness ==
    /\ pc = "done"
    /\ command = 5 /\ icommand = 2
    /\ output = <<>>
    /\ Len(log) = 1 /\ log[1].msg = "bad message"

(***************************************************************************)
(* C2: the records emitted are exactly one per row that passes the three   *)
(* checks, in increasing row order; a failing row does not stop the scan   *)
(* and equal rows are not deduplicated.                                    *)
(***************************************************************************)
C2_OneRecordPerPassingRow ==
    /\ pc \in {"loop", "done"} => OutputCommands = ExpectedCommands(input.bb, row)
    /\ pc = "done" => row = input.num_rows
    /\ (pc = "done" /\ input.bb = <<RowNoPreamble, RowLight138, RowLight138>>)
         => /\ Len(output) = 2
            /\ \A i \in 1..2 : output[i].target = "Light" /\ output[i].action = "On"

C2_Witness ==
    /\ pc = "done"
    /\ input.bb = <<RowNoPreamble, RowLight138, RowLight138>>
    /\ Len(output) = 2
    /\ output[1] = output[2]

(***************************************************************************)
(* C3: the return value is the number of records emitted.                  *)
(***************************************************************************)
C3_ReturnIsCount == pc = "done" => result = Len(output)

\* C3 as amended: the return value is 1 when at least one record was
\* emitted and 0 otherwise, so it is the count only up to one record.
C3_ReturnIsFlag ==
    pc = "done" => result = (IF Len(output) >= 1 THEN 1 ELSE 0)

C3_Witness == pc = "done" /\ Len(output) = 2 /\ result = 1

(***************************************************************************)
(* C4: hunter_decode always returns, and it returns non-zero if and only   *)
(* if at least one record was emitted; no rows or only failing rows give 0 *)
(* and no record.                                                          *)
(***************************************************************************)
C4_ReturnsAndFlagsRecords ==
    /\ <>(pc = "done")
    /\ [](pc = "done" =>
            /\ (result # 0) <=> (Len(output) > 0)
            /\ (\A r \in 1..input.num_rows : Outcome(input.bb[r]) # "decoded")
                 => (result = 0 /\ output = <<>>))

C4_Witness ==
    /\ pc = "done"
    /\ input.num_rows = MaxRows
    /\ result = 0
    /\ output = <<>>
    /\ Len(log) = MaxRows

(***************************************************************************)
(* C5: the mapping from command to target and action, with the Light       *)
(* labels exactly as listed ("25%", "37.5%", ...).                         *)
(***************************************************************************)
C5_ListedLabels ==
    \A i \in 1..Len(output) :
        <<output[i].target, output[i].action>> = ListedTable(output[i].command)

\* C5 as amended: the brightness labels all carry the word Brightness; the
\* mapping is total over 0..1023, every validated code yields a record.
C5_MappingTotal ==
    /\ \A i \in 1..Len(output) :
          /\ output[i].command \in 0..1023
          /\ <<output[i].target, output[i].action>> = MappingTable(output[i].command)
          /\ output[i].command \in FanCommands \cup LightCommands
               => output[i].action # "Unknown"
    /\ (pc = "done" /\ input.num_rows = 1 /\ Outcome(input.bb[1]) = "decoded")
         => /\ Len(output) = 1
            /\ output[1].command = RefCommand(input.bb[1])

C5_Witness ==
    /\ pc = "done"
    /\ Len(output) = 1
    /\ output[1].command = 73
    /\ output[1].target = "Light"
    /\ output[1].action = "Brightness 100%"

(***************************************************************************)
(* C6: when twelve 1 bits occur in a row handed to the decoder, the frame  *)
(* start used for the extraction is k + 12 for the first occurrence k,     *)
(* which need not be 0.                                                    *)
(***************************************************************************)
C6_FrameStartAfterFirstPreamble ==
    /\ (pc \in {"chk_pre", "chk_len", "validate"} /\ HasPreamble(input.bb[row + 1]))
         => start_pos = FirstPreamble(input.bb[row + 1]) + 12
    /\ pc = "validate"
         => /\ HasPreamble(input.bb[row + 1])
            /\ ExtractReads(row, FrameStart(input.bb[row + 1]) + 43, 10) \subseteq reads
            /\ ExtractReads(row, FrameStart(input.bb[row + 1]) + 55, 10) \subseteq reads
            /\ command = RefCommand(input.bb[row + 1])

\* two leading bits before the preamble
C6_Witness ==
    /\ pc = "validate"
    /\ FirstPreamble(input.bb[row + 1]) = 2
    /\ start_pos = 14
    /\ command = 138

(***************************************************************************)
(* C7: every row ends as no preamble, short message (fewer than 66 bits    *)
(* after the preamble), bad message or decoded, decided in this order; a   *)
(* failure logs exactly one tier 1 diagnostic and no record, a decoded row *)
(* logs nothing, and the next row is processed.                            *)
(***************************************************************************)
C7_RowOutcomes ==
    /\ pc \in {"loop", "done"}
         => /\ log = ExpectedLog(input.bb, row)
            /\ Len(log) + Len(output) = row
    /\ pc = "done" => row = input.num_rows
    /\ \A i \in 1..Len(log) :
          log[i].level = 1
          /\ log[i].msg \in {"no preamble", "short message", "bad message"}

C7_Witness ==
    /\ pc = "done"
    /\ input.bb = <<RowNoPreamble, RowShort65, RowBad>>
    /\ [i \in 1..Len(log) |-> log[i].msg]
         = <<"no preamble", "short message", "bad message">>
    /\ output = <<>>

(***************************************************************************)
(* C8: after hunter_decode returns, every row of the bit buffer holds the  *)
(* same bits and the same bit length as when the call began.               *)
(***************************************************************************)
C8_ReadOnly == pc = "done" => bitbuffer = input

\* C8 as amended: the decoder changes the buffer only by inverting it: the
\* number of rows and the bit lengths stay, every bit is the complement.
C8_OnlyInverted ==
    pc # "start" =>
        /\ bitbuffer.num_rows = input.num_rows
        /\ bitbuffer.bits_per_row = input.bits_per_row
        /\ \A r \in 1..input.num_rows :
              /\ Len(bitbuffer.bb[r]) = Len(input.bb[r])
              /\ \A i \in 1..Len(input.bb[r]) : bitbuffer.bb[r][i] = 1 - input.bb[r][i]

C8_Witness ==
    /\ pc = "done"
    /\ Len(output) >= 1
    /\ bitbuffer # input
    /\ bitbuffer.bits_per_row = input.bits_per_row

(***************************************************************************)
(* C9: the row of scenario 1 with its bits as listed (preamble of twelve 1 *)
(* bits, guard bit, id, command 0000000100, guard bits, inverse            *)
(* 1111111011) decodes to command 4, Fan, Speed 33%.                       *)
(***************************************************************************)
C9_ScenarioAsListed ==
    (pc = "done" /\ input.num_rows = 1
        /\ input.bb[1] \in ScenarioListed78 \cup ScenarioListed75)
      => /\ Len(output) = 1
         /\ output[1].command = 4
         /\ output[1].target = "Fan"
         /\ output[1].action = "Speed 33%"

\* C9 as amended: the record command 4, Fan, Speed 33% comes from the row
\* whose 66 bits after the preamble are the complement of the listed ones;
\* the row as listed gives command 1019, Unknown, Unknown when it has all 66
\* payload bits and a short message when it has only the 63 listed ones.
C9_ScenarioOnWire ==
    (pc = "done" /\ input.num_rows = 1)
      => /\ input.bb[1] \in ScenarioWire
            => output = <<[model |-> "Hunter",
                           id |-> <<"0", "1", "0", "2", "0", "3", "0", "4", "0", "5">>,
                           command |-> 4, target |-> "Fan", action |-> "Speed 33%"]>>
         /\ input.bb[1] \in ScenarioListed78
            => /\ Len(output) = 1
               /\ output[1].command = 1019
               /\ output[1].target = "Unknown"
               /\ output[1].action = "Unknown"
         /\ input.bb[1] \in ScenarioListed75
            => /\ output = <<>>
               /\ log = <<[level |-> 1, msg |-> "short message"]>>

C9_Witness ==
    /\ pc = "done"
    /\ input.num_rows = 1
    /\ input.bb[1] \in ScenarioWire
    /\ Len(output) = 1
    /\ output[1].action = "Speed 33%"
    /\ log = <<>>

(***************************************************************************)
(* C10: at the length check start_pos is at most the row's bit length, so  *)
(* the unsigned subtraction does not wrap, and every bit index read by the *)
(* extraction of id, command and inverse is below the row's bit length.    *)
(***************************************************************************)
C10_ExtractionInBounds ==
    /\ pc = "chk_len" => start_pos <= bitbuffer.bits_per_row[row + 1]
    /\ (pc = "chk_pre" /\ ~HasPreamble(input.bb[row + 1]))
         => start_pos = bitbuffer.bits_per_row[row + 1] + 12
    /\ \A p \in reads : p[2] < bitbuffer.bits_per_row[p[1] + 1]
    /\ pc = "validate"
         => {<<row, i>> : i \in (start_pos + 43)..(start_pos + 52)}
               \cup {<<row, i>> : i \in (start_pos + 55)..(start_pos + 64)} \subseteq reads

\* a row with exactly 66 bits after the preamble was read up to its
\* last but one bit
C10_Witness ==
    /\ pc = "done"
    /\ Len(output) = 1
    /\ start_pos + 66 = bitbuffer.bits_per_row[1]
    /\ <<0, start_pos + 64>> \in reads
    /\ <<0, start_pos + 1>> \in reads

====
